---- MODULE Spec2Model ----
(***************************************************************************)
(* mkchlog: the changelog pass of src/src/changelog.rs.                    *)
(*                                                                         *)
(* A text (Rust String / &str) is a sequence of tokens; the empty text is  *)
(* <<>>.  An Option<String> is None (<<>>) or Some(s) (<<s>>).             *)
(* One line of a commit's changelog block is the sequence of its tokens,   *)
(* the colon being a token of its own: "section: security:vuln_fixes" is   *)
(* <<"section", ":", "security", ":", "vuln_fixes">>.                      *)
(***************************************************************************)
EXTENDS Integers, Sequences, FiniteSets, TLC

\* The records of the model and their fields, in the order every record
\* constructor below lists them; each field is given its empty value.
RecordFields ==
    [Commit  |-> [commit_id |-> <<>>, message |-> <<>>, changelog_message |-> <<>>,
                  raw_data |-> <<>>, changed_files |-> <<>>],
     Error   |-> [kind |-> "", name |-> <<>>, raw |-> <<>>],
     Outcome |-> [tag |-> "", template |-> <<>>, err |-> <<>>],
     Result  |-> [tag |-> "", err |-> <<>>, out |-> <<>>],
     Routed  |-> [kind |-> "", err |-> <<>>],
     Section |-> [changes |-> <<>>, subsections |-> <<>>],
     Changes |-> [TitleOnly |-> <<>>, Other |-> <<>>],
     Entry   |-> [title |-> <<>>, description |-> <<>>, title_is_enough |-> <<>>],
     Change  |-> [change_type |-> "", change |-> <<>>],
     Routing |-> [default_project |-> <<>>, set_default_project |-> FALSE],
     Changelog |-> [title |-> <<>>, description |-> <<>>, title_is_enough |-> FALSE,
                    skip |-> FALSE, project |-> <<>>, section |-> <<>>,
                    inherit |-> <<>>, projects |-> <<>>],
     Project |-> [name |-> <<>>, title |-> <<>>, description |-> <<>>,
                  title_is_enough |-> FALSE, skip |-> FALSE, section |-> <<>>],
     Parsed  |-> [tag |-> "", err |-> <<>>, value |-> <<>>]]

VARIABLES
    projects,                    \* settings.projects_settings.projects (its key set)
    default_project_from_config, \* settings.projects_settings.default_project
    since_commit,                \* settings.projects_settings.since_commit
    requested,                   \* the `project` argument of generate()
    command,                     \* the `command` argument of generate()
    pc,                          \* position of generate(): "new", "loop", "done"
    project,                     \* the local `project` of generate() (line 37, 63)
    set_default_project,         \* local of generate() (line 49)
    default_project,             \* local of generate() (line 48)
    changelog_template,          \* the section tree owned by the Template
    commits,                     \* the commits of git.commits() consumed so far
    result,                      \* what generate() returned
    yaml,                        \* the text handed to parser::parse
    parsed,                      \* what parser::parse returned
    calls,                       \* how many times generate() was called on the object
    git_log                      \* the commits git.commits() returns to a further call

vars == <<projects, default_project_from_config, since_commit, requested, command,
          pc, project, set_default_project, default_project, changelog_template,
          commits, result, yaml, parsed, calls, git_log>>

----------------------------------------------------------------------------
(* Bounds *)

MaxCommits == 3

MaxCutover == 2

MaxEntries == 2

MaxOverrides == 2

MaxCalls == 2

MaxProjectCommits == 2

----------------------------------------------------------------------------
(* Option and text helpers *)

None == <<>>

Some(x) == <<x>>

IsSome(o) == Len(o) = 1

Unwrap(o) == o[1]

Str(s) == <<s>>

RECURSIVE Concat(_)
Concat(v) == IF v = <<>> THEN <<>> ELSE Head(v) \o Concat(Tail(v))

\* index of the first token equal to t, 0 when there is none
IndexOf(s, t) ==
    IF \E i \in 1..Len(s) : s[i] = t
    THEN CHOOSE i \in 1..Len(s) : s[i] = t /\ \A j \in 1..(i - 1) : s[j] # t
    ELSE 0

\* str::split_once(':') : None, or the texts before and after the first colon
SplitOnce(s, t) ==
    LET i == IndexOf(s, t)
    IN  IF i = 0 THEN None
        ELSE Some(<<SubSeq(s, 1, i - 1), SubSeq(s, i + 1, Len(s))>>)

----------------------------------------------------------------------------
(* Configuration: the section tree and the project names *)

FORCE_CHECK_ALL_PROJECTS == Str("force_check_all_projects")

Mkchlog == Str("mkchlog")

MkchlogAction == Str("mkchlog-action")

WrongName == Str("wrong-name")

Nonsense == Str("nonsense")

Security == Str("security")

Feat == Str("feat")

VulnFixes == Str("vuln_fixes")

Hardening == Str("hardening")

\* the sections of the configuration file, in declared order (an IndexMap)
SectionOrder == <<Security, Feat>>

\* the subsections of a section, in declared order
SubsectionOrder(sec) == IF sec = Security THEN <<VulnFixes, Hardening>> ELSE <<>>

SectionTitle(sec) == IF sec = Security THEN Str("Security") ELSE Str("New features")

SectionDescription(sec) ==
    IF sec = Security THEN Str("This section contains very important security-related changes.")
    ELSE <<>>

SubsectionTitle(sec, sub) ==
    IF sub = VulnFixes THEN Str("Fixed vulnerabilities") ELSE Str("Hardening")

SubsectionDescription(sec, sub) == <<>>

Range(s) == {s[i] : i \in 1..Len(s)}

SectionKeys == Range(SectionOrder)

SubsectionKeys(sec) == Range(SubsectionOrder(sec))

\* Changes::new : both buckets empty
NewChanges == [TitleOnly |-> <<>>, Other |-> <<>>]

\* Template::parse_config : every section and subsection with an empty Changes
NewTemplate ==
    [sec \in SectionKeys |->
        [changes |-> NewChanges,
         subsections |-> [sub \in SubsectionKeys(sec) |-> [changes |-> NewChanges]]]]

\* ChangesList::is_empty for Changes
ChangesIsEmpty(ch) == ch.TitleOnly = <<>> /\ ch.Other = <<>>

\* mutant: the new fragment is put in front of the bucket
ChangesAddFirst(ch, change_type, content) ==
    [ch EXCEPT ![change_type] = <<content>> \o @]

\* ChangesList::add for Changes
ChangesAdd(ch, change_type, content) ==
    [ch EXCEPT ![change_type] = Append(@, content)]

\* mutant: the two buckets written in the other order
ChangesToStringOtherFirst(ch) == Concat(ch.Other) \o Concat(ch.TitleOnly)

\* Display for Changes : the title-only bucket, then the other bucket
ChangesToString(ch) == Concat(ch.TitleOnly) \o Concat(ch.Other)

----------------------------------------------------------------------------
(* Commits *)

CommitIdAt(i) == Str(ToString(i))

\* the regex ^[a-z-]+: of CommitChangelog::new : a line that starts with a keyword
LowerWords == {"skip", "project", "section", "title", "description",
               "title-is-enough", "inherit", "security", "feat",
               "unknown", "mkchlog", "nonsense", "desciption", "name"}

IsKeywordLine(line) == Len(line) >= 2 /\ line[1] \in LowerWords /\ line[2] = ":"

\* CommitChangelog::new : lines that do not start with a keyword are joined to
\* the line before them with one space
RECURSIVE JoinLines(_, _)
JoinLines(acc, rest) ==
    IF rest = <<>> THEN acc
    ELSE LET line == Head(rest)
         IN  IF acc = <<>> THEN JoinLines(<<line>>, Tail(rest))
             ELSE IF ~IsKeywordLine(line)
                  THEN JoinLines(SubSeq(acc, 1, Len(acc) - 1)
                                   \o <<acc[Len(acc)] \o <<" ">> \o line>>,
                                 Tail(rest))
                  ELSE JoinLines(Append(acc, line), Tail(rest))

ChangelogLines(commit) == JoinLines(<<>>, commit.changelog_message)

\* CommitChangelog::get_key : the text after the colon of the first line that
\* starts with `key:`, None when no line does
GetKey(lines, key) ==
    LET hit(i) == Len(lines[i]) >= 2 /\ lines[i][1] = key /\ lines[i][2] = ":"
    IN  IF \E i \in 1..Len(lines) : hit(i)
        THEN LET i == CHOOSE k \in 1..Len(lines) : hit(k) /\ \A j \in 1..(k - 1) : ~hit(j)
             IN  Some(SubSeq(lines[i], 3, Len(lines[i])))
        ELSE None

UnwrapOr(o, d) == IF IsSome(o) THEN Unwrap(o) ELSE d

----------------------------------------------------------------------------
(* CommitChangelog::parse *)

NoError == [kind |-> "", name |-> <<>>, raw |-> <<>>]

\* mutant: the message of an error leaves the commit's text out
ErrorWithoutRaw(kind, name, raw) == [kind |-> kind, name |-> name, raw |-> <<>>]

\* the message of an error: what went wrong, the offending name and the raw
\* text of the commit after `>>>`
Error(kind, name, raw) == [kind |-> kind, name |-> name, raw |-> raw]

OkOutcome(tmpl) == [tag |-> "Ok", template |-> tmpl, err |-> NoError]

ErrOutcome(tmpl, e) == [tag |-> "Err", template |-> tmpl, err |-> e]

PanicOutcome(tmpl) == [tag |-> "Panic", template |-> tmpl, err |-> NoError]

\* mutant: the skip shorthand is not recognised
IsSkipNever(lines) == FALSE

\* lines 208-210 : the block is exactly `skip`
IsSkip(lines) == Len(lines) = 1 /\ lines[1] = Str("skip")

\* mutant: the comparison with the requested project is lost, nothing is dropped
RouteNoDrop(commit, lines, allowed_projects, proj, dflt) ==
    IF ~IsSome(proj) THEN [kind |-> "pass", err |-> NoError]
    ELSE
      LET key == GetKey(lines, "project")
      IN  IF ~IsSome(dflt) /\ ~IsSome(key)
          THEN [kind |-> "err", err |-> Error("MissingProject", <<>>, commit.raw_data)]
          ELSE
            LET changelog_project == IF IsSome(dflt) THEN Unwrap(dflt) ELSE Unwrap(key)
            IN  IF changelog_project \notin allowed_projects
                THEN [kind |-> "err",
                      err |-> Error("IncorrectProject", changelog_project, commit.raw_data)]
                ELSE [kind |-> "pass", err |-> NoError]

\* lines 213-237 : "pass" when the commit goes on to be filed, "drop" when it
\* belongs to another project, or the error
Route(commit, lines, allowed_projects, proj, dflt) ==
    IF ~IsSome(proj) THEN [kind |-> "pass", err |-> NoError]
    ELSE
      LET key == GetKey(lines, "project")
      IN  IF ~IsSome(dflt) /\ ~IsSome(key)
          THEN [kind |-> "err", err |-> Error("MissingProject", <<>>, commit.raw_data)]
          ELSE
            LET changelog_project == IF IsSome(dflt) THEN Unwrap(dflt) ELSE Unwrap(key)
            IN  IF changelog_project \notin allowed_projects
                THEN [kind |-> "err",
                      err |-> Error("IncorrectProject", changelog_project, commit.raw_data)]
                ELSE IF changelog_project # Unwrap(proj)
                        /\ Unwrap(proj) # FORCE_CHECK_ALL_PROJECTS
                     THEN [kind |-> "drop", err |-> NoError]
                     ELSE [kind |-> "pass", err |-> NoError]

\* lines 274-280 : the commit message up to its first blank line
MessageTitle(message) ==
    LET i == IndexOf(message, "\n\n")
    IN  IF i = 0 THEN message ELSE SubSeq(message, 1, i - 1)

\* str::trim of one line: leading indentation removed
TrimLine(line) == IF line # <<>> /\ Head(line) = "    " THEN Tail(line) ELSE line

\* lines 289-291 : each line trimmed, the lines joined with one space
RECURSIVE JoinTrimmed(_, _)
JoinTrimmed(cur, rest) ==
    IF rest = <<>> THEN TrimLine(cur)
    ELSE IF Head(rest) = "\n"
         THEN TrimLine(cur) \o <<" ">> \o JoinTrimmed(<<>>, Tail(rest))
         ELSE JoinTrimmed(Append(cur, Head(rest)), Tail(rest))

\* lines 283-292 : the rest of the commit message after its first blank line
MessageDescription(message) ==
    LET i == IndexOf(message, "\n\n")
    IN  IF i = 0 THEN <<>>
        ELSE JoinTrimmed(<<>>, SubSeq(message, i + 1, Len(message)))

\* lines 239-294 : the title and the description of the entry
Resolve(commit, lines) ==
    LET title0 == UnwrapOr(GetKey(lines, "title"), <<>>)
        description0 == UnwrapOr(GetKey(lines, "description"), <<>>)
        title_is_enough == UnwrapOr(GetKey(lines, "title-is-enough"), <<>>)
        inherit == UnwrapOr(GetKey(lines, "inherit"), <<>>)
        from_message == \/ inherit = Str("all")
                        \/ inherit = Str("title")
                        \/ (title_is_enough # <<>> /\ title0 = <<>>)
    IN  [title |-> IF from_message THEN MessageTitle(commit.message) ELSE title0,
         description |-> IF from_message /\ description0 = <<>>
                         THEN MessageDescription(commit.message)
                         ELSE description0,
         title_is_enough |-> title_is_enough]

\* lines 244-251 : the section key and the subsection key of the entry
SectionOf(value) ==
    LET parts == SplitOnce(value, ":")
    IN  IF IsSome(parts) THEN Unwrap(parts) ELSE <<value, <<>>>>

\* lines 296-318 : the change type and the markdown fragment of the entry
Fragment(title, description, title_is_enough, sub_section) ==
    LET change_type == IF title # <<>> /\ (title_is_enough # <<>> \/ description = <<>>)
                       THEN "TitleOnly" ELSE "Other"
        title_prefix == IF title_is_enough # <<>> \/ description = <<>> THEN Str("* ")
                        ELSE IF sub_section # <<>> THEN Str("#### ")
                        ELSE Str("### ")
        head == IF title # <<>> THEN title_prefix \o title \o Str("\n\n") ELSE <<>>
        body == IF description # <<>> /\ title_is_enough = <<>>
                THEN description \o Str("\n\n") ELSE <<>>
    IN  [change_type |-> change_type, change |-> head \o body]

\* lines 320-335 : the fragment is added to the bucket of the section or of the
\* subsection; a subsection the section does not have makes expect() panic
File(tmpl, section, sub_section, frag) ==
    IF sub_section # <<>>
    THEN IF sub_section \notin DOMAIN tmpl[section].subsections
         THEN PanicOutcome(tmpl)
         ELSE OkOutcome([tmpl EXCEPT ![section].subsections[sub_section].changes =
                            ChangesAdd(@, frag.change_type, frag.change)])
    ELSE OkOutcome([tmpl EXCEPT ![section].changes =
                       ChangesAdd(@, frag.change_type, frag.change)])

\* mutant: an entry naming a section the tree does not have is passed over
AggregateLenient(commit, lines, tmpl) ==
    LET key == GetKey(lines, "section")
    IN  IF ~IsSome(key)
        THEN ErrOutcome(tmpl, Error("MissingSection", <<>>, commit.raw_data))
        ELSE
          LET section == SectionOf(Unwrap(key))[1]
              sub_section == SectionOf(Unwrap(key))[2]
              r == Resolve(commit, lines)
          IN  IF section \notin DOMAIN tmpl
              THEN OkOutcome(tmpl)
              ELSE File(tmpl, section, sub_section,
                        Fragment(r.title, r.description, r.title_is_enough, sub_section))

\* lines 239-337 : the entry of a commit that passed the project check
Aggregate(commit, lines, tmpl) ==
    LET key == GetKey(lines, "section")
    IN  IF ~IsSome(key)
        THEN ErrOutcome(tmpl, Error("MissingSection", <<>>, commit.raw_data))
        ELSE
          LET section == SectionOf(Unwrap(key))[1]
              sub_section == SectionOf(Unwrap(key))[2]
              r == Resolve(commit, lines)
          IN  IF section \notin DOMAIN tmpl
              THEN IF section = <<>>
                   THEN ErrOutcome(tmpl, Error("EmptySection", section, commit.raw_data))
                   ELSE ErrOutcome(tmpl, Error("UnknownSection", section, commit.raw_data))
              ELSE File(tmpl, section, sub_section,
                        Fragment(r.title, r.description, r.title_is_enough, sub_section))

\* CommitChangelog::parse, lines 198-338
Parse(commit, tmpl, allowed_projects, proj, dflt) ==
    LET lines == ChangelogLines(commit)
    IN  IF IsSkip(lines) THEN OkOutcome(tmpl)
        ELSE LET r == Route(commit, lines, allowed_projects, proj, dflt)
             IN  IF r.kind = "err" THEN ErrOutcome(tmpl, r.err)
                 ELSE IF r.kind = "drop" THEN OkOutcome(tmpl)
                 ELSE Aggregate(commit, lines, tmpl)

----------------------------------------------------------------------------
(* Changelog::generate : rendering, lines 95-150 *)

Delimiter == Str("============================================")

RenderSubsection(sec, sub, s) ==
    (IF ~ChangesIsEmpty(s.changes)
     THEN Str("### ") \o SubsectionTitle(sec, sub) \o Str("\n\n")
          \o (IF SubsectionDescription(sec, sub) # <<>>
              THEN SubsectionDescription(sec, sub) \o Str("\n\n") ELSE <<>>)
     ELSE <<>>)
    \o ChangesToString(s.changes)

\* mutant: the heading of a section is written although nothing was filed in it
RenderSectionAlwaysHeader(sec, s) ==
    LET order == SubsectionOrder(sec)
        header ==
            IF ~ChangesIsEmpty(s.changes) \/ order # <<>>
            THEN Str("## ") \o SectionTitle(sec) \o Str("\n\n")
                 \o (IF SectionDescription(sec) # <<>>
                     THEN SectionDescription(sec) \o Str("\n\n") ELSE <<>>)
            ELSE <<>>
        own == IF ~ChangesIsEmpty(s.changes) THEN ChangesToString(s.changes) ELSE <<>>
        subs == Concat([i \in 1..Len(order) |->
                          RenderSubsection(sec, order[i], s.subsections[order[i]])])
    IN  header \o own \o subs

RenderSection(sec, s) ==
    LET order == SubsectionOrder(sec)
        print_section_header ==
            \/ ~ChangesIsEmpty(s.changes)
            \/ \E sub \in Range(order) : ~ChangesIsEmpty(s.subsections[sub].changes)
        header ==
            IF (~ChangesIsEmpty(s.changes) \/ order # <<>>) /\ print_section_header
            THEN Str("## ") \o SectionTitle(sec) \o Str("\n\n")
                 \o (IF SectionDescription(sec) # <<>>
                     THEN SectionDescription(sec) \o Str("\n\n") ELSE <<>>)
            ELSE <<>>
        own == IF ~ChangesIsEmpty(s.changes) THEN ChangesToString(s.changes) ELSE <<>>
        subs == Concat([i \in 1..Len(order) |->
                          RenderSubsection(sec, order[i], s.subsections[order[i]])])
    IN  header \o own \o subs

\* mutant: the sections are walked from the last declared to the first, as a
\* map without insertion order may do
RenderLastFirst(tmpl) ==
    Delimiter \o Str("\n\n")
    \o Concat([i \in 1..Len(SectionOrder) |->
                 RenderSection(SectionOrder[Len(SectionOrder) + 1 - i],
                               tmpl[SectionOrder[Len(SectionOrder) + 1 - i]])])
    \o Delimiter

\* mutant: the closing delimiter is not written
RenderNoClosing(tmpl) ==
    Delimiter \o Str("\n\n")
    \o Concat([i \in 1..Len(SectionOrder) |->
                 RenderSection(SectionOrder[i], tmpl[SectionOrder[i]])])

\* lines 102-148 : the document of a generate run
Render(tmpl) ==
    Delimiter \o Str("\n\n")
    \o Concat([i \in 1..Len(SectionOrder) |->
                 RenderSection(SectionOrder[i], tmpl[SectionOrder[i]])])
    \o Delimiter

\* mutant: a check returns the document as well
DocumentAlways(cmd, tmpl) == Render(tmpl)

\* lines 95-150 : what generate() returns after the loop, empty for a check
Document(cmd, tmpl) == IF cmd = "Check" THEN <<>> ELSE Render(tmpl)

----------------------------------------------------------------------------
(* changelog/parser.rs : the YAML parser of a metadata block *)

\* a YAML text is a scalar string, a map (its key/value pairs in the order
\* written) or a sequence of single-key maps (the key and the map under it)
Scalar(v) == <<"str", v>>

Map(pairs) == <<"map", pairs>>

Sequence(items) == <<"seq", items>>

\* the fields of struct Changelog and of struct Project that serde reads
ChangelogFields == {"skip", "project", "section", "title", "title-is-enough",
                    "description", "inherit"}

ProjectFields == {"skip", "name", "section", "title", "title-is-enough", "description"}

BoolFields == {"skip", "title-is-enough"}

NoParse == [tag |-> "None", err |-> NoError, value |-> <<>>]

ParseOk(v) == [tag |-> "Ok", err |-> NoError, value |-> v]

ParseErr(kind, field) == [tag |-> "Err", err |-> Error(kind, field, <<>>), value |-> <<>>]

\* Changelog::default
DefaultChangelog ==
    [title |-> None, description |-> None, title_is_enough |-> FALSE,
     skip |-> FALSE, project |-> None, section |-> <<>>,
     inherit |-> None, projects |-> None]

\* the value a map gives a key, None when the key is absent
Lookup(pairs, key) ==
    IF \E i \in 1..Len(pairs) : pairs[i][1] = key
    THEN Some(pairs[CHOOSE i \in 1..Len(pairs) : pairs[i][1] = key][2])
    ELSE None

LookupBool(pairs, key) == Lookup(pairs, key) = Some(Str("true"))

\* the derived Deserialize of a struct with deny_unknown_fields: the first
\* pair that names no field, repeats a field or gives a flag no boolean is
\* the error; a required field that is absent is the error after the last pair
PairError(pairs, i, fields) ==
    IF pairs[i][1] \notin fields THEN "UnknownField"
    ELSE IF \E j \in 1..(i - 1) : pairs[j][1] = pairs[i][1] THEN "DuplicateField"
    ELSE IF pairs[i][1] \in BoolFields /\ pairs[i][2] \notin {Str("true"), Str("false")}
         THEN "InvalidType"
    ELSE ""

StructError(pairs, fields, required) ==
    IF \E i \in 1..Len(pairs) : PairError(pairs, i, fields) # ""
    THEN LET i == CHOOSE k \in 1..Len(pairs) :
                    /\ PairError(pairs, k, fields) # ""
                    /\ \A j \in 1..(k - 1) : PairError(pairs, j, fields) = ""
         IN  Error(PairError(pairs, i, fields), Str(pairs[i][1]), <<>>)
    ELSE IF ~IsSome(Lookup(pairs, required))
         THEN Error("MissingField", Str(required), <<>>)
    ELSE NoError

\* lines 24-38 : struct Changelog read from a map; `section` has no default
DeserializeChangelog(pairs) ==
    LET e == StructError(pairs, ChangelogFields, "section")
    IN  IF e # NoError THEN [tag |-> "Err", err |-> e, value |-> <<>>]
        ELSE ParseOk([title |-> Lookup(pairs, "title"),
                      description |-> Lookup(pairs, "description"),
                      title_is_enough |-> LookupBool(pairs, "title-is-enough"),
                      skip |-> LookupBool(pairs, "skip"),
                      project |-> Lookup(pairs, "project"),
                      section |-> Unwrap(Lookup(pairs, "section")),
                      inherit |-> Lookup(pairs, "inherit"),
                      projects |-> None])

\* lines 40-57 : one element of a sequence, a map with the single key
\* `project` over struct Project; `name` is required, `section` is optional
ProjectError(item) ==
    IF item[1] # "project" THEN Error("UnknownField", Str(item[1]), <<>>)
    ELSE StructError(item[2], ProjectFields, "name")

DeserializeProject(item) ==
    [name |-> Unwrap(Lookup(item[2], "name")),
     title |-> Lookup(item[2], "title"),
     description |-> Lookup(item[2], "description"),
     title_is_enough |-> LookupBool(item[2], "title-is-enough"),
     skip |-> LookupBool(item[2], "skip"),
     section |-> Lookup(item[2], "section")]

\* lines 141-152 : visit_seq, the projects of a sequence in order
VisitSeq(items) ==
    IF \E i \in 1..Len(items) : ProjectError(items[i]) # NoError
    THEN LET i == CHOOSE k \in 1..Len(items) :
                    /\ ProjectError(items[k]) # NoError
                    /\ \A j \in 1..(k - 1) : ProjectError(items[j]) = NoError
         IN  [tag |-> "Err", err |-> ProjectError(items[i]), value |-> <<>>]
    ELSE ParseOk([DefaultChangelog EXCEPT
                    !.projects = Some([i \in 1..Len(items) |-> DeserializeProject(items[i])])])

\* lines 84-98 : Changelog::from_str, the scalar `skip`
FromStr(v) ==
    IF v # Str("skip") THEN ParseErr("UnexpectedValue", v)
    ELSE ParseOk([DefaultChangelog EXCEPT !.skip = TRUE])

\* parser::parse, lines 11-15 and 101-155
ParserParse(y) ==
    IF y[1] = "str" THEN FromStr(y[2])
    ELSE IF y[1] = "map" THEN DeserializeChangelog(y[2])
    ELSE VisitSeq(y[2])

----------------------------------------------------------------------------
(* The commits a run is given *)

\* a path is the sequence of its components: src/config.rs is <<"src", "config.rs">>
SourceFile == <<"src", "config.rs">>

\* Commit::new, lines 25-83 of git/commit.rs : the fields cut out of the raw
\* text, the changed files being its last paragraph
NewCommit(i, message, block, files) ==
    [commit_id |-> CommitIdAt(i),
     message |-> message,
     changelog_message |-> block,
     raw_data |-> <<CommitIdAt(i), message, block, files>>,
     changed_files |-> files]

\* a commit that changed one source file
Commit(i, message, block) == NewCommit(i, message, block, <<SourceFile>>)

Line(key, value) == <<key, ":">> \o value

ProjectLine(p) == IF IsSome(p) THEN <<Line("project", Unwrap(p))>> ELSE <<>>

TitleOnlyBody == <<Line("title", Str("Setup CI")), Line("title-is-enough", Str("true"))>>

DescribedBody == <<Line("title", Str("Allow configuring commit ID")),
                   Line("description", Str("Adds a field to the config."))>>

SkipBlock == <<Str("skip")>>

Message == <<"Fix bug", "\n\n", "This fixes", "\n", "    ", "a bug.">>

\* the project keys a commit may state: none, two configured names, an unknown one
ProjectKeys == {None, Some(Mkchlog), Some(MkchlogAction), Some(WrongName)}

\* the section values a commit may state
SectionValues == {Security \o Str(":") \o VulnFixes,
                  Str("unknown"),
                  <<>>,
                  Security \o Str(":") \o Str("nonsense")}

RoutingBlocks ==
    {ProjectLine(p) \o <<Line("section", Feat)>> \o body :
        p \in ProjectKeys, body \in {TitleOnlyBody, DescribedBody}}

SectionBlocks ==
    {ProjectLine(Some(Mkchlog)) \o <<Line("section", v)>> \o body :
        v \in SectionValues, body \in {DescribedBody}}
    \cup {ProjectLine(Some(Mkchlog)) \o <<Line("section", Security \o Str(":") \o VulnFixes)>>
            \o TitleOnlyBody}

Blocks == {SkipBlock} \cup RoutingBlocks \cup SectionBlocks

\* a commit message of one line, without a body
OneLineMessage == <<"Fix bug">>

Messages == {Message, OneLineMessage}

OptLine(key, o) == IF IsSome(o) THEN <<Line(key, Unwrap(o))>> ELSE <<>>

\* the section values of a repository without projects: two sections, the
\* two subsections written with a colon, and one written with a dot
PlacedSections == {Feat,
                   Security,
                   Security \o Str(":") \o VulnFixes,
                   Security \o Str(":") \o Hardening,
                   Security \o Str(".") \o VulnFixes}

PlacedBlocks ==
    {<<Line("section", v)>> \o body :
        v \in PlacedSections, body \in {TitleOnlyBody, DescribedBody}}

\* the keys an entry may or may not state next to its section
KeyedBlocks ==
    {<<Line("section", Feat)>>
        \o OptLine("title", t) \o OptLine("description", d)
        \o OptLine("title-is-enough", e) \o OptLine("inherit", h) :
        t \in {None, Some(Str("Setup CI"))},
        d \in {None, Some(Str("Adds a field to the config."))},
        e \in {None, Some(Str("true")), Some(Str("false"))},
        h \in {None, Some(Str("title"))}}

\* an entry that inherits everything, and one with a misspelt key
OtherBlocks ==
    {<<Line("section", Feat), Line("inherit", Str("all"))>>,
     <<Line("section", Feat), Line("title", Str("Setup CI")),
       Line("desciption", Str("Adds a field to the config."))>>}

EntryBlocks == PlacedBlocks \cup KeyedBlocks \cup OtherBlocks

\* the metadata blocks handed to the YAML parser
OptPair(key, o) == IF IsSome(o) THEN <<<<key, Unwrap(o)>>>> ELSE <<>>

Flags == {None, Some(Str("true")), Some(Str("false"))}

YamlScalars == {Scalar(Str("skip")), Scalar(Str("nonsense"))}

\* maps with and without each key, one key being the misspelt `desciption`
YamlMaps ==
    {Map(pairs) : pairs \in
        {OptPair("skip", k) \o OptPair("section", v) \o OptPair("title-is-enough", e)
            \o OptPair("description", d) \o OptPair("inherit", h) \o OptPair("desciption", u) :
            k \in Flags,
            v \in {None, Some(Feat)},
            e \in {None, Some(Str("true"))},
            d \in {None, Some(Str("Adds a field to the config."))},
            h \in {None, Some(Str("all"))},
            u \in {None, Some(Str("Adds a field to the config."))}} \ {<<>>}}

\* the elements of a sequence: `- project:` over a map, or over a wrong key
Overrides ==
    {<<"project", OptPair("name", n) \o OptPair("skip", k) \o OptPair("section", v)
                    \o OptPair("nonsense", u)>> :
        n \in {None, Some(Mkchlog), Some(MkchlogAction)},
        k \in Flags,
        v \in {None, Some(Feat)},
        u \in {None, Some(Str("yes"))}}
    \cup {<<"nonsense", <<>>>>}

YamlSequences ==
    {Sequence(items) : items \in UNION {[1..n -> Overrides] : n \in 1..MaxOverrides}}

YamlTexts == YamlScalars \cup YamlMaps \cup YamlSequences

\* the directories of a project in the configuration file (`dirs`)
ProjectDirs(p) == IF p = FORCE_CHECK_ALL_PROJECTS THEN {<<".">>} ELSE {p}

\* the changed files of a commit: one file of mkchlog, one of mkchlog-action,
\* or a file of mkchlog together with src/config.rs
ChangedFiles == {<<Mkchlog \o <<"src", "lib.rs">>>>,
                 <<MkchlogAction \o <<"action.yml">>>>,
                 <<Mkchlog \o <<"src", "lib.rs">>, SourceFile>>}

\* one element of a sequence-form block: `- project:` and the keys under it
ProjectItem == <<"- ", "project", ":">>

Override(name, body) == <<ProjectItem, Line("name", name)>> \o body

\* blocks in sequence form: two overrides, the second being skipped or not
SequenceBlocks ==
    {Override(n[1], <<Line("section", Feat)>> \o TitleOnlyBody) \o Override(n[2], body) :
        n \in {<<Mkchlog, MkchlogAction>>, <<MkchlogAction, Mkchlog>>},
        body \in {<<Line("skip", Str("true"))>>,
                  <<Line("section", Security)>> \o DescribedBody}}

\* single entries of the three project names, in a section or a subsection
ProjectEntryBlocks ==
    {ProjectLine(Some(p)) \o <<Line("section", v)>> \o TitleOnlyBody :
        p \in {Mkchlog, MkchlogAction, FORCE_CHECK_ALL_PROJECTS},
        v \in {Feat}}
    \cup {ProjectLine(Some(Mkchlog)) \o <<Line("section", Security \o Str(":") \o VulnFixes)>>
            \o DescribedBody}

ProjectBlocks == {SkipBlock} \cup ProjectEntryBlocks \cup SequenceBlocks

----------------------------------------------------------------------------
(* The state machine of one Changelog object *)

NoResult == [tag |-> "None", err |-> NoError, out |-> <<>>]

\* Template::from_str, lines 364-372 of template.rs : since-commit needs a
\* default project, and the default project is one of the listed projects
ValidSettings(ps, dflt, since) ==
    /\ IsSome(since) => IsSome(dflt)
    /\ IsSome(dflt) => Unwrap(dflt) \in ps

Init ==
    /\ projects \in {{}, {Mkchlog, MkchlogAction}}
    /\ default_project_from_config \in {None, Some(Mkchlog)}
    /\ since_commit \in {None} \cup {Some(CommitIdAt(k)) : k \in 1..MaxCutover}
    /\ ValidSettings(projects, default_project_from_config, since_commit)
    /\ requested \in {None, Some(Mkchlog), Some(MkchlogAction), Some(Nonsense)}
    /\ command \in {"Generate", "Check"}
    /\ pc = "new"
    /\ project = None
    /\ set_default_project = FALSE
    /\ default_project = None
    /\ changelog_template = NewTemplate
    /\ commits = <<>>
    /\ result = NoResult
    /\ yaml = <<>>
    /\ parsed = NoParse
    /\ calls = 1
    /\ git_log = <<>>

\* mutant: a check keeps the requested project as its filter
FilterAsRequested(cmd, ps, req) == req

\* generate(), lines 60-64 : a check of a repository with projects replaces the
\* requested project by the force-check-all marker
Filter(cmd, ps, req) ==
    IF cmd = "Check" /\ ps # {} THEN Some(FORCE_CHECK_ALL_PROJECTS) ELSE req

\* mutant: the default project never becomes active
CutoverNever(commit_id, set_default, dflt) ==
    LET use_default_project == IsSome(default_project_from_config)
    IN  [default_project |-> dflt,
         set_default_project |->
             IF use_default_project /\ commit_id = UnwrapOr(since_commit, <<>>)
             THEN TRUE ELSE set_default]

\* mutant: the id is compared first, so the default is already active for the
\* cutover commit itself
CutoverEager(commit_id, set_default, dflt) ==
    LET use_default_project == IsSome(default_project_from_config)
        reached == set_default \/ commit_id = UnwrapOr(since_commit, <<>>)
    IN  [default_project |->
             IF use_default_project /\ reached
             THEN default_project_from_config ELSE dflt,
         set_default_project |-> IF use_default_project THEN reached ELSE set_default]

\* generate(), lines 74-81 : the default project becomes active for the commits
\* after the one whose id is since-commit
Cutover(commit_id, set_default, dflt) ==
    LET use_default_project == IsSome(default_project_from_config)
    IN  [default_project |->
             IF use_default_project /\ set_default
             THEN default_project_from_config ELSE dflt,
         set_default_project |->
             IF use_default_project /\ commit_id = UnwrapOr(since_commit, <<>>)
             THEN TRUE ELSE set_default]

\* generate(), lines 37-69 : the requested project must be configured; a check
\* of a repository with projects checks every project
Start ==
    /\ pc = "new"
    /\ set_default_project' = FALSE
    /\ default_project' = None
    /\ IF IsSome(requested) /\ Unwrap(requested) \notin projects
       THEN /\ result' = [tag |-> "Err",
                          err |-> Error("ProjectNotConfigured", Unwrap(requested), <<>>),
                          out |-> <<>>]
            /\ pc' = "done"
            /\ project' = requested
       ELSE /\ project' = Filter(command, projects, requested)
            /\ pc' = "loop"
            /\ result' = result
    /\ UNCHANGED <<projects, default_project_from_config, since_commit, requested,
                   command, changelog_template, commits, yaml, parsed, calls, git_log>>

\* mutant: the error of a commit is kept and the loop goes on
ProcessCommitOnward(c) ==
    /\ pc = "loop"
    /\ Len(commits) < MaxCommits
    /\ c.commit_id = CommitIdAt(Len(commits) + 1)
    /\ LET r == Cutover(c.commit_id, set_default_project, default_project)
           o == Parse(c, changelog_template, projects, project, r.default_project)
       IN  /\ default_project' = r.default_project
           /\ set_default_project' = r.set_default_project
           /\ changelog_template' = o.template
           /\ pc' = "loop"
           /\ IF o.tag = "Ok"
              THEN result' = result
              ELSE result' = [tag |-> o.tag, err |-> o.err, out |-> <<>>]
    /\ commits' = Append(commits, c)
    /\ UNCHANGED <<projects, default_project_from_config, since_commit, requested,
                   command, project, yaml, parsed, calls, git_log>>

\* generate(), lines 72-92 : one iteration of the loop over the commits
ProcessCommit(c) ==
    /\ pc = "loop"
    /\ Len(commits) < MaxCommits
    /\ c.commit_id = CommitIdAt(Len(commits) + 1)
    /\ LET r == Cutover(c.commit_id, set_default_project, default_project)
           o == Parse(c, changelog_template, projects, project, r.default_project)
       IN  /\ default_project' = r.default_project
           /\ set_default_project' = r.set_default_project
           /\ changelog_template' = o.template
           /\ IF o.tag = "Ok"
              THEN pc' = "loop" /\ result' = result
              ELSE pc' = "done" /\ result' = [tag |-> o.tag, err |-> o.err, out |-> <<>>]
    /\ commits' = Append(commits, c)
    /\ UNCHANGED <<projects, default_project_from_config, since_commit, requested,
                   command, project, yaml, parsed, calls, git_log>>

\* generate(), lines 95-150 : after the last commit the document is returned,
\* empty for a check
Finish ==
    /\ pc = "loop"
    /\ pc' = "done"
    /\ result' = [tag |-> "Ok",
                  err |-> NoError,
                  out |-> Document(command, changelog_template)]
    /\ UNCHANGED <<projects, default_project_from_config, since_commit, requested,
                   command, project, set_default_project, default_project,
                   changelog_template, commits, yaml, parsed, calls, git_log>>

Process == \E i \in 1..MaxCommits, b \in Blocks : ProcessCommit(Commit(i, Message, b))

Next == Start \/ Process \/ Finish

Spec == Init /\ [][Next]_vars

\* a repository without projects, asked for its changelog or checked
EntryInit ==
    /\ projects = {}
    /\ default_project_from_config = None
    /\ since_commit = None
    /\ requested = None
    /\ command \in {"Generate", "Check"}
    /\ pc = "new"
    /\ project = None
    /\ set_default_project = FALSE
    /\ default_project = None
    /\ changelog_template = NewTemplate
    /\ commits = <<>>
    /\ result = NoResult
    /\ yaml = <<>>
    /\ parsed = NoParse
    /\ calls = 1
    /\ git_log = <<>>

ProcessEntry ==
    /\ Len(commits) < MaxEntries
    /\ \E i \in 1..MaxEntries, m \in Messages, b \in EntryBlocks :
          ProcessCommit(Commit(i, m, b))

EntryNext == Start \/ ProcessEntry \/ Finish

EntrySpec == EntryInit /\ [][EntryNext]_vars

\* the parser on its own: one metadata block is parsed
ParserInit ==
    /\ projects = {}
    /\ default_project_from_config = None
    /\ since_commit = None
    /\ requested = None
    /\ command = "Check"
    /\ pc = "new"
    /\ project = None
    /\ set_default_project = FALSE
    /\ default_project = None
    /\ changelog_template = NewTemplate
    /\ commits = <<>>
    /\ result = NoResult
    /\ yaml \in YamlTexts
    /\ parsed = NoParse
    /\ calls = 1
    /\ git_log = <<>>

\* parser::parse(s)
ParseYaml ==
    /\ parsed = NoParse
    /\ parsed' = ParserParse(yaml)
    /\ UNCHANGED <<projects, default_project_from_config, since_commit, requested,
                   command, pc, project, set_default_project, default_project,
                   changelog_template, commits, result, yaml, calls, git_log>>

ParserNext == ParseYaml

ParserSpec == ParserInit /\ [][ParserNext]_vars

\* the routing state generate() starts its loop with, lines 48-49
NewRouting == [default_project |-> None, set_default_project |-> FALSE]

\* generate(), lines 72-92 : the loop over the commits of the log from the
\* tree and the routing state it is given; the outcome and the routing state
\* it ends with
RECURSIVE Loop(_, _, _, _)
Loop(tmpl, log, proj, routing) ==
    IF log = <<>> THEN <<OkOutcome(tmpl), routing>>
    ELSE LET c == Head(log)
             r == Cutover(c.commit_id, routing.set_default_project, routing.default_project)
             o == Parse(c, tmpl, projects, proj, r.default_project)
         IN  IF o.tag = "Ok" THEN Loop(o.template, Tail(log), proj, r)
             ELSE <<o, r>>

\* generate(), lines 32-151, as one call on the tree `tmpl` that
\* Template::data() hands out: what it returns, the tree and the routing
\* state it leaves
Generate(tmpl, log, req, cmd) ==
    IF IsSome(req) /\ Unwrap(req) \notin projects
    THEN <<[tag |-> "Err",
            err |-> Error("ProjectNotConfigured", Unwrap(req), <<>>),
            out |-> <<>>],
           tmpl, NewRouting>>
    ELSE LET l == Loop(tmpl, log, Filter(cmd, projects, req), NewRouting)
             o == l[1]
         IN  <<IF o.tag = "Ok"
               THEN [tag |-> "Ok", err |-> NoError, out |-> Document(cmd, o.template)]
               ELSE [tag |-> o.tag, err |-> o.err, out |-> <<>>],
               o.template, l[2]>>

\* generate() is called once more on the same Changelog object, for the same
\* project: the call starts at line 37 with the Template as the call before
\* left it, and git.commits() will return the same log
Again(cmd) ==
    /\ pc = "done"
    /\ result.tag # "Panic"
    /\ calls < MaxCalls
    /\ pc' = "new"
    /\ command' = cmd
    /\ calls' = calls + 1
    /\ git_log' = IF calls = 1 THEN commits ELSE git_log
    /\ commits' = <<>>
    /\ result' = NoResult
    /\ UNCHANGED <<projects, default_project_from_config, since_commit, requested,
                   project, set_default_project, default_project,
                   changelog_template, yaml, parsed>>

Reuse == \E cmd \in {"Generate", "Check"} : Again(cmd)

\* the loop of the first call, over the commits of the log
ProcessFirst ==
    /\ calls = 1
    /\ Len(commits) < MaxEntries
    /\ \E i \in 1..MaxEntries, b \in PlacedBlocks : ProcessCommit(Commit(i, Message, b))

FinishFirst == calls = 1 /\ Finish

\* the loop of a further call, over the same log
ProcessLogged ==
    /\ calls > 1
    /\ Len(commits) < Len(git_log)
    /\ ProcessCommit(git_log[Len(commits) + 1])

FinishLogged == calls > 1 /\ Len(commits) = Len(git_log) /\ Finish

ReuseNext == Start \/ ProcessFirst \/ FinishFirst \/ Reuse \/ ProcessLogged \/ FinishLogged

\* a repository without projects whose Changelog object is used again
ReuseSpec == EntryInit /\ [][ReuseNext]_vars

\* a repository with two projects, one of them possibly named like the
\* force-check-all marker; no default project
ProjectsInit ==
    /\ projects \in {{Mkchlog, MkchlogAction}, {Mkchlog, FORCE_CHECK_ALL_PROJECTS}}
    /\ default_project_from_config = None
    /\ since_commit = None
    /\ requested \in {None} \cup {Some(p) : p \in projects}
    /\ command \in {"Generate", "Check"}
    /\ pc = "new"
    /\ project = None
    /\ set_default_project = FALSE
    /\ default_project = None
    /\ changelog_template = NewTemplate
    /\ commits = <<>>
    /\ result = NoResult
    /\ yaml = <<>>
    /\ parsed = NoParse
    /\ calls = 1
    /\ git_log = <<>>

ProcessProject ==
    /\ Len(commits) < MaxProjectCommits
    /\ \E i \in 1..MaxProjectCommits, b \in ProjectBlocks, files \in ChangedFiles :
          ProcessCommit(NewCommit(i, OneLineMessage, b, files))

ProjectsNext == Start \/ ProcessProject \/ Finish

ProjectsSpec == ProjectsInit /\ [][ProjectsNext]_vars

----------------------------------------------------------------------------
(* Vocabulary of the properties *)

\* a step of the loop, and the commit it consumes
LoopStep == pc = "loop" /\ Len(commits') = Len(commits) + 1

Consumed == commits'[Len(commits')]

\* the value a commit's metadata block states for a key
StatedKey(c, key) == GetKey(ChangelogLines(c), key)

\* the metadata block is exactly `skip`
ExactlySkip(c) == c.changelog_message = <<Str("skip")>>

\* a commit consumed earlier in the pass carries the configured cutover id
CutoverPassed ==
    /\ IsSome(default_project_from_config)
    /\ IsSome(since_commit)
    /\ \E j \in 1..Len(commits) : commits[j].commit_id = Unwrap(since_commit)

\* the project an entry is attributed to: the default after the cutover, else
\* the one its block states
EffectiveProject(c) ==
    IF CutoverPassed THEN default_project_from_config ELSE StatedKey(c, "project")

\* generate mode with a concrete, configured requested project
ConcreteFilter ==
    /\ command = "Generate"
    /\ IsSome(requested)
    /\ Unwrap(requested) \in projects
    /\ Unwrap(requested) # FORCE_CHECK_ALL_PROJECTS

\* the section and subsection keys an entry states
StatedSection(c) ==
    LET v == Unwrap(StatedKey(c, "section"))
        i == IndexOf(v, ":")
    IN  IF i = 0 THEN <<v, <<>>>> ELSE <<SubSeq(v, 1, i - 1), SubSeq(v, i + 1, Len(v))>>

\* the entry is not skipped and the project check lets it through
InScope(c) ==
    /\ ~ExactlySkip(c)
    /\ \/ command = "Generate" /\ ~IsSome(requested)
       \/ projects = {} /\ ~IsSome(requested)
       \/ /\ IsSome(EffectiveProject(c))
          /\ Unwrap(EffectiveProject(c)) \in projects
          /\ \/ command = "Check"
             \/ requested = EffectiveProject(c)

\* what a step did
Touched == changelog_template' # changelog_template

Failed == result'.tag \in {"Err", "Panic"}

Quiet == changelog_template' = changelog_template /\ result' = result /\ pc' = "loop"

\* number of fragments in the two buckets of a Changes
Count(ch) == Len(ch.TitleOnly) + Len(ch.Other)

----------------------------------------------------------------------------
(* C1..C10 *)

\* C1: with a default project P and a cutover id C configured, every
\* non-skipped commit processed after the commit whose id is C is attributed to
\* P: under a concrete requested project F it is in scope iff F = P, whatever
\* project its block states.
C1_AfterCutoverDefault ==
    [][(LoopStep /\ ConcreteFilter /\ CutoverPassed /\ ~ExactlySkip(Consumed))
        => ((Touched \/ Failed) <=> requested = default_project_from_config)]_vars

\* a commit stating mkchlog-action, processed after the cutover, is filed in
\* the changelog of the default project mkchlog
C1_Witness ==
    /\ command = "Generate" /\ requested = Some(Mkchlog)
    /\ default_project_from_config = Some(Mkchlog)
    /\ since_commit = Some(CommitIdAt(1))
    /\ Len(commits) = 2
    /\ ExactlySkip(commits[1])
    /\ StatedKey(commits[2], "project") = Some(MkchlogAction)
    /\ Count(changelog_template[Feat].changes) = 1
    /\ result.tag = "None"

\* C2: while the commit whose id is the cutover id is processed no default is
\* active: with a filter set it needs its own project key (a missing key is a
\* hard error), an unknown project is an error, and its own project decides
\* whether it is in scope.
C2_CutoverCommitNeedsProject ==
    [][(/\ LoopStep
        /\ IsSome(project)
        /\ IsSome(default_project_from_config)
        /\ since_commit = Some(Consumed.commit_id)
        /\ ~ExactlySkip(Consumed))
        => LET key == StatedKey(Consumed, "project")
           IN  /\ ~IsSome(key) =>
                    /\ result'.tag = "Err" /\ result'.err.kind = "MissingProject"
                    /\ ~Touched
               /\ (IsSome(key) /\ Unwrap(key) \notin projects) =>
                    /\ result'.tag = "Err" /\ result'.err.kind = "IncorrectProject"
                    /\ ~Touched
               /\ (IsSome(key) /\ Unwrap(key) \in projects /\ ConcreteFilter) =>
                    ((Touched \/ Failed) <=> key = requested)]_vars

\* the cutover commit states no project and the pass fails on it although a
\* default project is configured
C2_Witness ==
    /\ command = "Generate" /\ requested = Some(Mkchlog)
    /\ default_project_from_config = Some(Mkchlog)
    /\ Len(commits) = 2
    /\ since_commit = Some(commits[2].commit_id)
    /\ ~ExactlySkip(commits[2])
    /\ StatedKey(commits[2], "project") = None
    /\ result.tag = "Err" /\ result.err.kind = "MissingProject"
    /\ result.err.raw = commits[2].raw_data

C4_CheckFiltersNothing ==
    [][(LoopStep /\ command = "Check" /\ projects # {} /\ ~ExactlySkip(Consumed))
        => LET c == Consumed
               eff == EffectiveProject(c)
               attributed == IsSome(eff) /\ Unwrap(eff) \in projects
               placed == /\ IsSome(StatedKey(c, "section"))
                         /\ StatedSection(c)[1] \in SectionKeys
                         /\ \/ StatedSection(c)[2] = <<>>
                            \/ StatedSection(c)[2] \in SubsectionKeys(StatedSection(c)[1])
           IN  /\ (attributed /\ placed) => (Touched /\ ~Failed)
               /\ ~(attributed /\ placed) => (Failed /\ ~Touched)
               /\ ~IsSome(eff) =>
                    result'.tag = "Err" /\ result'.err.kind = "MissingProject"]_vars

\* a check asked for mkchlog files a commit of mkchlog-action
C4_Witness ==
    /\ command = "Check" /\ requested = Some(Mkchlog)
    /\ projects # {}
    /\ default_project_from_config = None
    /\ Len(commits) = 1
    /\ StatedKey(commits[1], "project") = Some(MkchlogAction)
    /\ Count(changelog_template[Feat].changes) = 1
    /\ result.tag = "None"

\* C5: with the requested project unset, projects configured and no default
\* active, a non-skipped entry that states no project is a hard error and is
\* added to no section.
C5_UnsetFilterNoProjectFails ==
    [][(/\ LoopStep /\ ~IsSome(requested) /\ projects # {}
        /\ ~CutoverPassed
        /\ ~ExactlySkip(Consumed)
        /\ ~IsSome(StatedKey(Consumed, "project")))
        => (result'.tag = "Err" /\ ~Touched)]_vars

\* C6: an entry whose effective project is a concrete name outside the
\* configured project set is a hard error naming the commit, for every
\* requested project (unset, configured, force-check-all) and in both modes.
C6_UnknownProjectFails ==
    [][(/\ LoopStep /\ projects # {} /\ ~ExactlySkip(Consumed)
        /\ IsSome(EffectiveProject(Consumed))
        /\ Unwrap(EffectiveProject(Consumed)) \notin projects)
        => (/\ result'.tag = "Err"
            /\ result'.err.kind = "IncorrectProject"
            /\ result'.err.raw = Consumed.raw_data
            /\ ~Touched)]_vars

\* C7: an in-scope, non-skipped entry whose section key is no key of the
\* section tree makes generate() fail with an error that names the section and
\* carries the commit's raw text, in generate and in check mode alike, and no
\* fragment is added.
C7_UnknownSectionFails ==
    [][(/\ LoopStep /\ InScope(Consumed)
        /\ IsSome(StatedKey(Consumed, "section"))
        /\ StatedSection(Consumed)[1] \notin SectionKeys)
        => (/\ result'.tag = "Err"
            /\ result'.err.kind \in {"UnknownSection", "EmptySection"}
            /\ result'.err.name = StatedSection(Consumed)[1]
            /\ result'.err.raw = Consumed.raw_data
            /\ pc' = "done"
            /\ ~Touched)]_vars

\* a check fails on the second commit, which names the section `unknown`
C7_Witness ==
    /\ command = "Check"
    /\ Len(commits) = 2
    /\ StatedKey(commits[2], "section") = Some(Str("unknown"))
    /\ result.tag = "Err" /\ result.err.kind = "UnknownSection"
    /\ result.err.name = Str("unknown")
    /\ result.err.raw = commits[2].raw_data
    /\ Count(changelog_template[Feat].changes) = 1

\* C8: an in-scope entry whose section is configured but whose subsection is
\* not a subsection of it makes generate() return an error value, never a
\* panic and never a silent drop.
C8_UnknownSubsectionIsError ==
    [][(/\ LoopStep /\ InScope(Consumed)
        /\ IsSome(StatedKey(Consumed, "section"))
        /\ StatedSection(Consumed)[1] \in SectionKeys
        /\ StatedSection(Consumed)[2] # <<>>
        /\ StatedSection(Consumed)[2] \notin SubsectionKeys(StatedSection(Consumed)[1]))
        => result'.tag = "Err"]_vars

\* C9: a commit whose block is exactly `skip` changes no bucket and raises no
\* error, in both modes, for every requested project and routing state.
C9_SkipContributesNothing ==
    [][(LoopStep /\ ExactlySkip(Consumed)) => Quiet]_vars

\* in a repository with projects and a requested project, a skip commit that
\* states no project has been passed over before the cutover
C9_Witness ==
    /\ projects # {} /\ IsSome(requested)
    /\ ~IsSome(default_project)
    /\ Len(commits) = 2
    /\ ExactlySkip(commits[2])
    /\ Count(changelog_template[Feat].changes) = 1
    /\ pc = "loop" /\ result.tag = "None"

\* a title-only fragment starts with the bullet token, a fragment with a
\* description with a heading token that is not a subsection heading
IsSubsectionHeading(out, i) ==
    /\ out[i] = "### "
    /\ i < Len(out)
    /\ \E sec \in SectionKeys : \E sub \in SubsectionKeys(sec) :
          <<out[i + 1]>> = SubsectionTitle(sec, sub)

IsBlockStart(out, i) == out[i] = "## " \/ IsSubsectionHeading(out, i)

IsDescribedStart(out, i) ==
    \/ out[i] = "#### "
    \/ out[i] = "### " /\ ~IsSubsectionHeading(out, i)

\* C10: in the rendered output of every section and subsection all title-only
\* fragments come before all fragments with a description, whatever the order
\* of the commits.
C10_TitleOnlyFirst ==
    (pc = "done" /\ result.tag = "Ok")
    => \A i, j \in 1..Len(result.out) :
          (i < j /\ IsDescribedStart(result.out, i) /\ result.out[j] = "* ")
          => \E k \in (i + 1)..(j - 1) : IsBlockStart(result.out, k)

\* the described commit came first and the title-only commit second, both in
\* the same section, and the document was rendered
C10_Witness ==
    /\ pc = "done" /\ result.tag = "Ok" /\ command = "Generate"
    /\ Len(commits) = 2
    /\ Len(changelog_template[Feat].changes.Other) = 1
    /\ Len(changelog_template[Feat].changes.TitleOnly) = 1
    /\ IsSome(StatedKey(commits[1], "description"))
    /\ IsSome(StatedKey(commits[2], "title-is-enough"))
    /\ \E i \in 1..Len(result.out) : result.out[i] = "* "

----------------------------------------------------------------------------
(* C11..C20 *)

\* the run returned a document
Rendered == pc = "done" /\ result.tag = "Ok" /\ command = "Generate"

\* the places of the document where a heading with this prefix and title stands
HeadingAt(out, prefix, title) ==
    {i \in 1..(Len(out) - 1) : out[i] = prefix /\ <<out[i + 1]>> = title}

\* the bucket of a section, or of one of its subsections, holds a change
SubtreeHoldsChange(tmpl, sec) ==
    \/ Count(tmpl[sec].changes) > 0
    \/ \E sub \in SubsectionKeys(sec) : Count(tmpl[sec].subsections[sub].changes) > 0

RECURSIVE SumSeq(_)
SumSeq(v) == IF v = <<>> THEN 0 ELSE Head(v) + SumSeq(Tail(v))

\* number of tokens of the fragments of a bucket pair
FragmentTokens(ch) == Len(Concat(ch.TitleOnly)) + Len(Concat(ch.Other))

\* number of tokens of a heading line with its blank line, and of a
\* description paragraph with its blank line
HeadingTokens(description) == 3 + (IF description # <<>> THEN 2 ELSE 0)

\* number of tokens a section may contribute: nothing when its subtree holds no
\* change, else its heading, its fragments, and for every subsection that
\* holds a change the subsection's heading and fragments
SectionTokens(tmpl, sec) ==
    IF ~SubtreeHoldsChange(tmpl, sec) THEN 0
    ELSE HeadingTokens(SectionDescription(sec))
         + FragmentTokens(tmpl[sec].changes)
         + SumSeq([k \in 1..Len(SubsectionOrder(sec)) |->
              LET sub == SubsectionOrder(sec)[k]
                  ch == tmpl[sec].subsections[sub].changes
              IN  IF Count(ch) = 0 THEN 0
                  ELSE HeadingTokens(SubsectionDescription(sec, sub))
                       + FragmentTokens(ch)])

\* C11: in the generated document the `## title` heading of a section (and
\* its description) is present iff the section's bucket or the bucket of one
\* of its subsections holds a change, the `### title` heading of a subsection
\* iff the subsection's bucket holds a change, and a section whose subtree
\* holds no change contributes no text: the document has exactly the tokens
\* of the delimiters, of the headings due and of the fragments filed.
C11_HeadingIffChange ==
    Rendered =>
      /\ \A sec \in SectionKeys :
            /\ Cardinality(HeadingAt(result.out, "## ", SectionTitle(sec)))
                 = (IF SubtreeHoldsChange(changelog_template, sec) THEN 1 ELSE 0)
            /\ SectionDescription(sec) # <<>> =>
                 ((\E i \in 1..Len(result.out) : <<result.out[i]>> = SectionDescription(sec))
                  <=> SubtreeHoldsChange(changelog_template, sec))
            /\ \A sub \in SubsectionKeys(sec) :
                 Cardinality(HeadingAt(result.out, "### ", SubsectionTitle(sec, sub)))
                  = (IF Count(changelog_template[sec].subsections[sub].changes) > 0
                     THEN 1 ELSE 0)
      /\ Len(result.out)
           = 3 + SumSeq([k \in 1..Len(SectionOrder) |->
                          SectionTokens(changelog_template, SectionOrder[k])])

\* one change was filed in a subsection of security and none in feat: the
\* document has the headings of security and of the subsection, not of feat
C11_Witness ==
    /\ Rendered
    /\ Len(commits) = 1
    /\ Count(changelog_template[Security].changes) = 0
    /\ Count(changelog_template[Security].subsections[Hardening].changes) = 1
    /\ HeadingAt(result.out, "## ", SectionTitle(Security)) # {}
    /\ HeadingAt(result.out, "### ", SubsectionTitle(Security, Hardening)) # {}
    /\ HeadingAt(result.out, "### ", SubsectionTitle(Security, VulnFixes)) = {}
    /\ HeadingAt(result.out, "## ", SectionTitle(Feat)) = {}

\* C12: sections, and subsections within a section, stand in the document in
\* the order the configuration declares them, whatever the order in which the
\* commits filed changes into them.
C12_DeclaredOrder ==
    Rendered =>
      /\ \A a, b \in 1..Len(SectionOrder) :
            a < b =>
              \A i \in HeadingAt(result.out, "## ", SectionTitle(SectionOrder[a])) :
              \A j \in HeadingAt(result.out, "## ", SectionTitle(SectionOrder[b])) : i < j
      /\ \A sec \in SectionKeys :
          \A a, b \in 1..Len(SubsectionOrder(sec)) :
            a < b =>
              \A i \in HeadingAt(result.out, "### ",
                                  SubsectionTitle(sec, SubsectionOrder(sec)[a])) :
              \A j \in HeadingAt(result.out, "### ",
                                  SubsectionTitle(sec, SubsectionOrder(sec)[b])) : i < j

\* the first commit filed into feat, the second into security, and the
\* document has both headings
C12_Witness ==
    /\ Rendered
    /\ Len(commits) = 2
    /\ StatedKey(commits[1], "section") = Some(Feat)
    /\ StatedKey(commits[2], "section") = Some(Security \o Str(":") \o Hardening)
    /\ HeadingAt(result.out, "## ", SectionTitle(Feat)) # {}
    /\ HeadingAt(result.out, "## ", SectionTitle(Security)) # {}

\* number of fragments in all buckets of the section tree
TotalCount(tmpl) ==
    SumSeq([k \in 1..Len(SectionOrder) |->
        LET sec == SectionOrder[k]
        IN  Count(tmpl[sec].changes)
            + SumSeq([n \in 1..Len(SubsectionOrder(sec)) |->
                 Count(tmpl[sec].subsections[SubsectionOrder(sec)[n]].changes)])])

NonSkipCommits == {j \in 1..Len(commits) : ~ExactlySkip(commits[j])}

\* C13: a check runs the whole pass (every commit that is not skipped is
\* filed or ends the pass) and, when no commit raised an error, returns the
\* empty string, whatever changes were accumulated.
C13_CheckReturnsEmpty ==
    (pc = "done" /\ result.tag = "Ok" /\ command = "Check")
    => /\ result.out = <<>>
       /\ TotalCount(changelog_template) = Cardinality(NonSkipCommits)

\* a check of two commits that were both filed returned the empty string
C13_Witness ==
    /\ pc = "done" /\ result.tag = "Ok" /\ command = "Check"
    /\ Len(commits) = 2
    /\ TotalCount(changelog_template) = 2
    /\ result.out = <<>>

\* C14: a generated document begins with the delimiter line and ends with
\* the delimiter line; for an empty commit list it is the two delimiter lines
\* with no heading between them.
C14_Delimited ==
    Rendered =>
      /\ Len(result.out) >= 3
      /\ <<result.out[1]>> = Delimiter
      /\ result.out[2] = "\n\n"
      /\ <<result.out[Len(result.out)]>> = Delimiter
      /\ commits = <<>> => result.out = Delimiter \o Str("\n\n") \o Delimiter

\* the document of a run without commits
C14_Witness ==
    /\ Rendered
    /\ commits = <<>>
    /\ projects # {}
    /\ result.out = Delimiter \o Str("\n\n") \o Delimiter

\* the buckets of the section tree: section, subsection (empty for the
\* section's own bucket) and classification
BucketIds ==
    {<<sec, <<>>, t>> : sec \in SectionKeys, t \in {"TitleOnly", "Other"}}
    \cup UNION {{<<sec, sub, t>> : sub \in SubsectionKeys(sec), t \in {"TitleOnly", "Other"}} :
                  sec \in SectionKeys}

BucketAt(tmpl, id) ==
    IF id[2] = <<>> THEN tmpl[id[1]].changes[id[3]]
    ELSE tmpl[id[1]].subsections[id[2]].changes[id[3]]

\* the last fragment of a bucket after the step
NewFragment(id) ==
    LET b == BucketAt(changelog_template', id)
    IN  IF b = <<>> THEN <<>> ELSE b[Len(b)]

\* the step appended the fragment f to the bucket id and changed no other
FiledIn(id, f) ==
    /\ BucketAt(changelog_template', id) = Append(BucketAt(changelog_template, id), f)
    /\ \A other \in BucketIds \ {id} :
          BucketAt(changelog_template', other) = BucketAt(changelog_template, other)

\* the title and the description a fragment shows
HasHeading(f) == f # <<>> /\ f[1] \in {"* ", "### ", "#### "}

FragmentTitle(f) == IF HasHeading(f) /\ Len(f) >= 2 THEN <<f[2]>> ELSE <<>>

FragmentDescription(f) ==
    IF HasHeading(f) THEN (IF Len(f) > 4 THEN SubSeq(f, 4, Len(f) - 1) ELSE <<>>)
    ELSE (IF f = <<>> THEN <<>> ELSE SubSeq(f, 1, Len(f) - 1))

\* the title_is_enough flag of an entry is true
FlagSet(c) == StatedKey(c, "title-is-enough") = Some(Str("true"))

\* the title and the description an entry is to have: its own when it
\* supplies one, else the first paragraph and the rest of the commit message
InheritedTitle(c) ==
    IF IsSome(StatedKey(c, "title")) THEN Unwrap(StatedKey(c, "title"))
    ELSE MessageTitle(c.message)

InheritedDescription(c) ==
    IF IsSome(StatedKey(c, "description")) THEN Unwrap(StatedKey(c, "description"))
    ELSE IF FlagSet(c) THEN <<>>
    ELSE MessageDescription(c.message)

\* C15: the fragment filed for an entry shows the explicit title when the
\* entry supplies one and the first paragraph of the commit message
\* otherwise, and (unless title_is_enough) the explicit description when
\* supplied and the rest of the message otherwise; no other key is needed for
\* the fallback and an explicit title is never replaced by the message text.
C15_Inheritance ==
    [][(LoopStep /\ Touched)
        => \E id \in BucketIds :
             LET f == NewFragment(id)
             IN  /\ FiledIn(id, f)
                 /\ FragmentTitle(f) = InheritedTitle(Consumed)
                 /\ ~FlagSet(Consumed) =>
                      FragmentDescription(f) = InheritedDescription(Consumed)]_vars

\* C16: an entry is filed as title-only iff its title_is_enough flag is true
\* or its description is empty; a title-only entry is filed in the title-only
\* bucket as exactly `* title` and a blank line; an entry with the flag false
\* and a description is never filed as title-only.
C16_TitleOnlyClass ==
    [][(LoopStep /\ Touched)
        => \E id \in BucketIds :
             LET f == NewFragment(id)
                 title_only == FlagSet(Consumed) \/ InheritedDescription(Consumed) = <<>>
             IN  /\ FiledIn(id, f)
                 /\ id[3] = "TitleOnly" <=> title_only
                 /\ title_only =>
                      f = Str("* ") \o InheritedTitle(Consumed) \o Str("\n\n")]_vars

\* C17: an entry that is not title-only is filed as a heading, `### ` for a
\* section and `#### ` for a subsection, the title, a blank line, the
\* description and a blank line; the heading level follows from the
\* subsection key alone.
C17_HeadingLevel ==
    [][(LoopStep /\ Touched
        /\ ~FlagSet(Consumed) /\ InheritedDescription(Consumed) # <<>>)
        => \E id \in BucketIds :
             LET f == NewFragment(id)
             IN  /\ FiledIn(id, f)
                 /\ f = (IF id[2] # <<>> THEN Str("#### ") ELSE Str("### "))
                        \o InheritedTitle(Consumed) \o Str("\n\n")
                        \o InheritedDescription(Consumed) \o Str("\n\n")]_vars

\* the section value of an entry split on its first dot
DotSplit(c) ==
    LET v == Unwrap(StatedKey(c, "section"))
        i == IndexOf(v, ".")
    IN  IF i = 0 THEN <<v, <<>>>> ELSE <<SubSeq(v, 1, i - 1), SubSeq(v, i + 1, Len(v))>>

\* C18: the section value is split on its first `.`: `security.vuln_fixes`
\* is filed into the bucket of subsection vuln_fixes of section security, a
\* value without `.` into the section's own bucket.
C18_DotSplit ==
    [][(/\ LoopStep /\ InScope(Consumed)
        /\ IsSome(StatedKey(Consumed, "section"))
        /\ DotSplit(Consumed)[1] \in SectionKeys
        /\ \/ DotSplit(Consumed)[2] = <<>>
           \/ DotSplit(Consumed)[2] \in SubsectionKeys(DotSplit(Consumed)[1]))
        => \E t \in {"TitleOnly", "Other"} :
             LET id == <<DotSplit(Consumed)[1], DotSplit(Consumed)[2], t>>
                 f == NewFragment(id)
             IN  FiledIn(id, f)]_vars

\* a step of the parser
ParseStep == parsed = NoParse /\ parsed' # NoParse

\* a map names a key that is none of the recognized ones
MapHasUnknownKey(y) ==
    y # <<>> /\ y[1] = "map" /\ \E i \in 1..Len(y[2]) : y[2][i][1] \notin ChangelogFields

\* a line of a commit's block starts with a key that is none of them
BlockHasUnknownKey(c) ==
    \E i \in 1..Len(c.changelog_message) :
        LET line == c.changelog_message[i]
        IN  Len(line) >= 2 /\ line[2] = ":" /\ line[1] \notin ChangelogFields

\* C19: a map-form metadata block with a key other than the recognized
\* ones is a hard parse error and is never silently ignored, in the parser
\* (the parse returns an error) and in the changelog pass (the pass fails on
\* that commit and files nothing for it) alike.
C19_UnknownKeyFails ==
    [][/\ (ParseStep /\ MapHasUnknownKey(yaml)) => parsed'.tag = "Err"
       /\ (LoopStep /\ InScope(Consumed) /\ BlockHasUnknownKey(Consumed))
            => (result'.tag = "Err" /\ ~Touched)]_vars

\* the parser's half of C19, on its own
ParserRejectsUnknownKey ==
    (parsed # NoParse /\ MapHasUnknownKey(yaml)) => parsed.tag = "Err"

\* the keys of a map, or of the map of an override, are recognized, none is
\* repeated, the flags are booleans and an override has its name
WellFormed(pairs, fields) ==
    /\ \A i \in 1..Len(pairs) : PairError(pairs, i, fields) = ""
    /\ "name" \in fields => IsSome(Lookup(pairs, "name"))

\* an entry that has no section and whose skip is not true
SectionMissing(pairs) ==
    ~IsSome(Lookup(pairs, "section")) /\ Lookup(pairs, "skip") # Some(Str("true"))

\* C20: parsing an entry, a top-level map or a per-project override of a
\* sequence, fails iff the entry has no `section` and its `skip` is not true:
\* with `skip: true` and no section it parses, with skip false or absent and
\* no section it is rejected.
C20_SectionRequiredUnlessSkip ==
    parsed # NoParse =>
      /\ (yaml[1] = "map" /\ WellFormed(yaml[2], ChangelogFields))
           => (parsed.tag = "Err" <=> SectionMissing(yaml[2]))
      /\ (/\ yaml[1] = "seq"
          /\ \A i \in 1..Len(yaml[2]) :
                yaml[2][i][1] = "project" /\ WellFormed(yaml[2][i][2], ProjectFields))
           => (parsed.tag = "Err"
               <=> \E i \in 1..Len(yaml[2]) : SectionMissing(yaml[2][i][2]))

----------------------------------------------------------------------------
(* C21..C30 *)

\* the metadata block is a sequence of `- project:` items
IsSequenceForm(c) ==
    c.changelog_message # <<>> /\ c.changelog_message[1] = ProjectItem

\* the positions at which the overrides of a sequence-form block start
OverrideStarts(c) ==
    {i \in 1..Len(c.changelog_message) : c.changelog_message[i] = ProjectItem}

\* the lines of the override that starts at position i
OverrideLines(c, i) ==
    LET ends == {j \in OverrideStarts(c) : j > i} \cup {Len(c.changelog_message) + 1}
        e == CHOOSE j \in ends : \A k \in ends : j <= k
    IN  SubSeq(c.changelog_message, i + 1, e - 1)

OverrideKey(c, i, key) == GetKey(OverrideLines(c, i), key)

\* the overrides that name the requested project and are not skipped
Contributing(c) ==
    {i \in OverrideStarts(c) :
        /\ OverrideKey(c, i, "name") = requested
        /\ OverrideKey(c, i, "skip") # Some(Str("true"))}

\* C21: a sequence-form block is routed override by override: under a
\* concrete requested project F, before the cutover, the step does not fail
\* and files one fragment for each override whose name is F and whose skip is
\* not true, in that override's own section and with its own title, and
\* nothing for the other overrides.
C21_OverridesRoutedIndependently ==
    [][(LoopStep /\ ConcreteFilter /\ ~CutoverPassed /\ IsSequenceForm(Consumed))
        => /\ ~Failed
           /\ TotalCount(changelog_template')
                = TotalCount(changelog_template) + Cardinality(Contributing(Consumed))
           /\ \A i \in Contributing(Consumed) :
                \E t \in {"TitleOnly", "Other"} :
                  LET id == <<Unwrap(OverrideKey(Consumed, i, "section")), <<>>, t>>
                      old == BucketAt(changelog_template, id)
                      new == BucketAt(changelog_template', id)
                  IN  \E k \in (Len(old) + 1)..Len(new) :
                        FragmentTitle(new[k]) = Unwrap(OverrideKey(Consumed, i, "title"))]_vars

\* C22: an error that a commit of the loop makes generate() return carries
\* the raw text of that very commit.
C22_ErrorCarriesRawText ==
    [][(LoopStep /\ result'.tag = "Err")
        => /\ result'.err.raw = Consumed.raw_data
           /\ result'.err.raw # <<>>]_vars

\* the second commit names an unknown section and the pass ended with its text
C22_Witness ==
    /\ pc = "done"
    /\ Len(commits) = 2
    /\ result.tag = "Err"
    /\ result.err.kind = "UnknownSection"
    /\ result.err.raw = commits[2].raw_data
    /\ result.err.raw # commits[1].raw_data

\* the commits before the last one consumed, given to generate() on their own
PrefixResult(j) == Generate(NewTemplate, SubSeq(commits, 1, j), requested, command)[1]

\* C23: the commit that raises an error ends the pass: generate() returns
\* that commit's error and no document, no commit before it failed, and no
\* commit is processed after it.
C23_FirstErrorEndsPass ==
    [][/\ (LoopStep /\ result'.tag = "Err")
          => /\ pc' = "done"
             /\ result'.out = <<>>
             /\ result'.err.raw = Consumed.raw_data
             /\ \A j \in 0..Len(commits) : PrefixResult(j).tag = "Ok"
       /\ result.tag = "Err"
          => /\ commits' = commits
             /\ result' = result
             /\ changelog_template' = changelog_template]_vars

\* the first commit was filed, the second states a project that is not
\* configured: the pass ended there, below the bound on the commits
C23_Witness ==
    /\ pc = "done"
    /\ Len(commits) = 2
    /\ Len(commits) < MaxCommits
    /\ TotalCount(changelog_template) = 1
    /\ result.tag = "Err"
    /\ result.err.kind = "IncorrectProject"
    /\ result.out = <<>>

\* C24: nothing of a call is left for the next one: a further generate() on
\* the same object, with the same log and requested project, returns what a
\* call on a freshly built object returns for that command; in particular a
\* second call in the same mode returns the result of the first, with no
\* fragment of the first call added to it.
C24_NoStatePersists ==
    (pc = "done" /\ calls > 1)
    => result = Generate(NewTemplate, git_log, requested, command)[1]

\* a file lies in one of the directories: in the main directory for `.`,
\* else below the directory
InDirs(file, dirs) ==
    \E d \in dirs :
       \/ d = <<".">> /\ Len(file) = 1
       \/ Len(d) <= Len(file) /\ SubSeq(file, 1, Len(d)) = d

\* the changed files of a commit that lie outside the directories of project p
StrayFiles(c, p) ==
    {c.changed_files[k] : k \in {n \in 1..Len(c.changed_files) :
                                   ~InDirs(c.changed_files[n], ProjectDirs(p))}}

\* C25: in a repository with projects, a commit attributed to a configured
\* project P that changed a file outside the directories of P makes
\* generate() fail with an error naming the file and P, whatever project was
\* requested (stated for the calls that route by project: a check, or a
\* requested project).
C25_StrayFileFails ==
    [][(/\ LoopStep /\ projects # {} /\ IsSome(project)
        /\ ~ExactlySkip(Consumed)
        /\ IsSome(EffectiveProject(Consumed))
        /\ Unwrap(EffectiveProject(Consumed)) \in projects
        /\ StrayFiles(Consumed, Unwrap(EffectiveProject(Consumed))) # {})
        => /\ result'.tag = "Err"
           /\ result'.err.kind = "FileNotInProject"
           /\ result'.err.name
                \in {<<f, Unwrap(EffectiveProject(Consumed))>> :
                        f \in StrayFiles(Consumed, Unwrap(EffectiveProject(Consumed)))}]_vars

\* the text t stands in the text s, in one piece
IsInfix(t, s) ==
    \E i \in 0..(Len(s) - Len(t)) : SubSeq(s, i + 1, i + Len(t)) = t

\* C26: a step leaves every bucket as it was or appends one fragment to its
\* end, so a bucket lists its fragments in the order their commits were
\* processed and nothing filed is removed, rewritten or moved; the document
\* shows the fragments of a bucket in that order, in one piece.
C26_BucketsAppendOnly ==
    [][/\ \A id \in BucketIds :
            \/ BucketAt(changelog_template', id) = BucketAt(changelog_template, id)
            \/ BucketAt(changelog_template', id)
                 = Append(BucketAt(changelog_template, id), NewFragment(id))
       /\ (pc' = "done" /\ result'.tag = "Ok" /\ command' = "Generate")
            => \A id \in BucketIds :
                 IsInfix(Concat(BucketAt(changelog_template', id)), result'.out)]_vars

\* two entries with different titles were filed in the same bucket and the
\* document shows the one processed first above the other
C26_Witness ==
    /\ Rendered
    /\ Len(commits) = 2
    /\ \E id \in BucketIds :
          LET b == BucketAt(changelog_template, id)
          IN  /\ Len(b) = 2
              /\ b[1] # b[2]
              /\ StatedKey(commits[1], "title") = Some(FragmentTitle(b[1]))
              /\ StatedKey(commits[2], "title") = Some(FragmentTitle(b[2]))
              /\ IsInfix(b[1] \o b[2], result.out)

\* a check of a repository with projects went through the whole log
CheckSucceeded ==
    /\ pc = "done" /\ calls = 1
    /\ command = "Check" /\ result.tag = "Ok"
    /\ projects # {}

\* generate() for project f on a freshly built object and the log of the run
GenerateFor(f) == Generate(NewTemplate, commits, Some(f), "Generate")

\* C27: in a repository with projects, when a check of a log succeeds then
\* generating the changelog of that log succeeds for every configured project.
C27_CheckImpliesGenerate ==
    CheckSucceeded => \A f \in projects : GenerateFor(f)[1].tag = "Ok"

\* a checked log with a commit of each project; the changelog of mkchlog is
\* generated from it and holds the one entry of mkchlog
C27_Witness ==
    /\ CheckSucceeded
    /\ Len(commits) = 2
    /\ ~IsSome(default_project_from_config)
    /\ StatedKey(commits[1], "project") = Some(Mkchlog)
    /\ StatedKey(commits[2], "project") = Some(MkchlogAction)
    /\ TotalCount(changelog_template) = 2
    /\ GenerateFor(Mkchlog)[1].tag = "Ok"
    /\ TotalCount(GenerateFor(Mkchlog)[2]) = 1

\* the log of the run without its commit i
Without(i) == SubSeq(commits, 1, i - 1) \o SubSeq(commits, i + 1, Len(commits))

\* how many fragments commit i adds to the changelog generated for project f
Contribution(i, f) ==
    TotalCount(GenerateFor(f)[2])
      - TotalCount(Generate(NewTemplate, Without(i), Some(f), "Generate")[2])

\* C28: in a repository with projects and for a log whose check succeeds,
\* each commit that is not skipped and holds a single entry adds exactly one
\* fragment to the changelog of its effective project and none to the
\* changelog of any other configured project.
C28_OneFragmentOwnProject ==
    CheckSucceeded
    => \A i \in 1..Len(commits) :
         (~ExactlySkip(commits[i]) /\ ~IsSequenceForm(commits[i]))
         => \A f \in projects :
              Contribution(i, f) = IF Some(f) = EffectiveProject(commits[i]) THEN 1 ELSE 0

\* a fragment that starts with a title line: the prefix, a title, a blank line
HasTitleLine(f) ==
    /\ Len(f) >= 3
    /\ f[1] \in {"* ", "### ", "#### "}
    /\ f[2] # ""
    /\ f[3] = "\n\n"

\* C29: every fragment a step appends to a bucket is non-empty and begins
\* with a title line (`* `, `### ` or `#### ` and a non-empty title), and the
\* document shows the heading of a section only above a fragment.
C29_FragmentHasTitle ==
    [][/\ \A id \in BucketIds :
            BucketAt(changelog_template', id) # BucketAt(changelog_template, id)
            => HasTitleLine(NewFragment(id))
       /\ (pc' = "done" /\ result'.tag = "Ok" /\ command' = "Generate")
            => \A sec \in SectionKeys :
                 HeadingAt(result'.out, "## ", SectionTitle(sec)) # {}
                 => \E id \in BucketIds :
                      /\ id[1] = sec
                      /\ \E k \in 1..Len(BucketAt(changelog_template', id)) :
                            BucketAt(changelog_template', id)[k] # <<>>]_vars

\* C30: when the changelog of a configured project F is generated, whatever
\* F is called (force_check_all_projects included), a commit whose effective
\* project is not F files nothing.
C30_OnlyOwnProject ==
    [][(/\ LoopStep /\ command = "Generate"
        /\ IsSome(requested) /\ Unwrap(requested) \in projects
        /\ EffectiveProject(Consumed) # requested)
        => changelog_template' = changelog_template]_vars

====
